---- MODULE Spec2Model ----
(***************************************************************************)
(* A model of obfstr (src/src/lib.rs): the compile-time bit mixer, string  *)
(* hash and call-site entropy, the UTF-8 to UTF-16 converter, the          *)
(* ObfString type and the obfstr! macro forms.                             *)
(*                                                                         *)
(* Fixed-width integers are little-endian sequences of bytes (a u32 is 4   *)
(* bytes, a u64 is 8), because the values exceed the checker's integers;   *)
(* wrapping_add, wrapping_mul, ^ and >> work on that representation and    *)
(* keep the width of their operands.                                       *)
(*                                                                         *)
(* lib.rs declares `pub mod bytes;` and `pub mod words;` whose files are   *)
(* not part of the sources at hand: keystream, obfuscate, deobfuscate and  *)
(* equals of both modules are modelled from the specification (4.4, 4.5).  *)
(***************************************************************************)
EXTENDS Integers, Sequences, FiniteSets, TLC

VARIABLES
    \* one call of hash(s) or one expansion of wide!(s)          (SpecCore)
    fn, chars, valid, s, i, j, len, data, result, iters, pc,
    \* two expansions of random! at two call sites           (SpecEntropy)
    env, sites, rnd, mixed,
    \* one use of one obfstr! / obfconst! call site                 (SpecObf)
    form, text, key, STRING_, LEN, KEYSTREAM, OBFSTRING, obfconst, buf, cand, op, out, eqres, opc,
    \* threads running one obfstr! call site                     (SpecThreads)
    tpc, tdst, ti, tdata, tout

coreVars == <<fn, chars, valid, s, i, j, len, data, result, iters, pc>>
entVars == <<env, sites, rnd, mixed>>
obfVars == <<form, text, key, STRING_, LEN, KEYSTREAM, OBFSTRING, obfconst, buf, cand, op, out,
             eqres, opc>>
thrVars == <<tpc, tdst, ti, tdata, tout>>
vars == <<coreVars, entVars, obfVars, thrVars>>

notCore == <<entVars, obfVars, thrVars>>
notEnt == <<coreVars, obfVars, thrVars>>
notObf == <<coreVars, entVars, thrVars>>
notThreads == <<coreVars, entVars>>

\* a value not yet computed
Unset == <<>>

----------------------------------------------------------------------------
(* Fixed-width arithmetic on little-endian byte sequences.                 *)

RECURSIVE BitXor(_, _)
BitXor(a, b) ==
    IF a = 0 THEN b
    ELSE IF b = 0 THEN a
    ELSE ((a + b) % 2) + 2 * BitXor(a \div 2, b \div 2)

RECURSIVE BitAnd(_, _)
BitAnd(a, b) ==
    IF a = 0 \/ b = 0 THEN 0
    ELSE ((a % 2) * (b % 2)) + 2 * BitAnd(a \div 2, b \div 2)

RECURSIVE BitOr(_, _)
BitOr(a, b) ==
    IF a = 0 THEN b
    ELSE IF b = 0 THEN a
    ELSE (IF a % 2 = 1 \/ b % 2 = 1 THEN 1 ELSE 0) + 2 * BitOr(a \div 2, b \div 2)

RECURSIVE Pow2(_)
Pow2(n) == IF n = 0 THEN 1 ELSE 2 * Pow2(n - 1)

Shl(a, n) == a * Pow2(n)

XorNibble == [a \in 0..15 |-> [b \in 0..15 |-> BitXor(a, b)]]

XorByte(a, b) == 16 * XorNibble[a \div 16][b \div 16] + XorNibble[a % 16][b % 16]

\* a ^ b on two values of the same width
Xor(a, b) == [k \in 1..Len(a) |-> XorByte(a[k], b[k])]

RECURSIVE AddCarry(_, _, _, _)
AddCarry(a, b, k, c) ==
    IF k > Len(a) THEN <<>>
    ELSE LET t == a[k] + b[k] + c
         IN  <<t % 256>> \o AddCarry(a, b, k + 1, t \div 256)

wrapping_add(a, b) == AddCarry(a, b, 1, 0)

RECURSIVE MulColumn(_, _, _, _)
MulColumn(a, b, k, n) ==
    IF n > k THEN 0 ELSE a[n] * b[k + 1 - n] + MulColumn(a, b, k, n + 1)

RECURSIVE MulCarry(_, _, _, _)
MulCarry(a, b, k, c) ==
    IF k > Len(a) THEN <<>>
    ELSE LET t == MulColumn(a, b, k, 1) + c
         IN  <<t % 256>> \o MulCarry(a, b, k + 1, t \div 256)

wrapping_mul(a, b) == MulCarry(a, b, 1, 0)

\* a >> n
Shr(a, n) ==
    LET q == n \div 8
        r == n % 8
        B(k) == IF k > Len(a) THEN 0 ELSE a[k]
    IN  [k \in 1..Len(a) |->
            (B(k + q) \div Pow2(r)) + (B(k + q + 1) % Pow2(r)) * Pow2(8 - r)]

\* a small natural as a u32 / u64
RECURSIVE ToBytes(_, _)
ToBytes(n, w) == IF w = 0 THEN <<>> ELSE <<n % 256>> \o ToBytes(n \div 256, w - 1)

as_u32(x) == IF Len(x) >= 4 THEN SubSeq(x, 1, 4) ELSE x \o [k \in 1..(4 - Len(x)) |-> 0]
as_u64(x) == x \o [k \in 1..(8 - Len(x)) |-> 0]

----------------------------------------------------------------------------
(* splitmix, hash, entropy, SEED, random!                                  *)

\* the first round without its xor: z = (z >> 30).wrapping_mul(...)
splitmix_no_xor(seed) ==
    LET next == wrapping_add(seed, <<21, 124, 74, 127, 185, 121, 55, 158>>)
        z1 == wrapping_mul(Shr(next, 30), <<185, 229, 228, 28, 109, 71, 88, 191>>)
        z2 == wrapping_mul(Xor(z1, Shr(z1, 27)), <<235, 17, 49, 19, 187, 73, 208, 148>>)
    IN  Xor(z2, Shr(z2, 31))

\* 0x9e3779b97f4a7c15, 0xbf58476d1ce4e5b9, 0x94d049bb133111eb, low byte first
splitmix(seed) ==
    LET next == wrapping_add(seed, <<21, 124, 74, 127, 185, 121, 55, 158>>)
        z1 == wrapping_mul(Xor(next, Shr(next, 30)), <<185, 229, 228, 28, 109, 71, 88, 191>>)
        z2 == wrapping_mul(Xor(z1, Shr(z1, 27)), <<235, 17, 49, 19, 187, 73, 208, 148>>)
    IN  Xor(z2, Shr(z2, 31))

\* the seed of the textbook DJB2
hash_init_djb2 == ToBytes(5381, 4)

\* let mut result = 3581u32
hash_init == ToBytes(3581, 4)

\* result = result.wrapping_mul(33).wrapping_add(s[i] as u32), s[i] being b
hash_body(acc, b) == wrapping_add(wrapping_mul(acc, ToBytes(33, 4)), ToBytes(b, 4))

RECURSIVE hash_loop(_, _, _)
hash_loop(bytes, k, acc) ==
    IF k < Len(bytes) THEN hash_loop(bytes, k + 1, hash_body(acc, bytes[k + 1])) ELSE acc

hash(bytes) == hash_loop(bytes, 0, hash_init)

\* SEED, for the value of the environment variable OBFSTR_SEED
SEED(e) == splitmix(as_u64(hash(e)))

\* the line folded in twice, the column never
entropy_no_column(e, file, line, column) ==
    splitmix(Xor(splitmix(Xor(splitmix(Xor(SEED(e), as_u64(hash(file)))),
                              ToBytes(line, 8))),
                 ToBytes(line, 8)))

entropy(e, file, line, column) ==
    splitmix(Xor(splitmix(Xor(splitmix(Xor(SEED(e), as_u64(hash(file)))),
                              ToBytes(line, 8))),
                 ToBytes(column, 8)))

\* random!(u32, seed) and random!(u64, seed)
random_u32(seed) == as_u32(seed)
random_u64(seed) == seed

----------------------------------------------------------------------------
(* wide_len and wide: the UTF-8 decoder and the UTF-16 encoder.            *)

\* The bytes of a &str holding the scalar c (what s.as_bytes() returns).
utf8_encode(c) ==
    IF c < 128 THEN <<c>>
    ELSE IF c < 2048 THEN <<192 + c \div 64, 128 + (c % 64)>>
    ELSE IF c < 65536 THEN <<224 + c \div 4096, 128 + ((c \div 64) % 64), 128 + (c % 64)>>
    ELSE <<240 + c \div 262144, 128 + ((c \div 4096) % 64), 128 + ((c \div 64) % 64), 128 + (c % 64)>>

RECURSIVE as_bytes(_)
as_bytes(cs) == IF cs = <<>> THEN <<>> ELSE utf8_encode(Head(cs)) \o as_bytes(Tail(cs))

\* The if/else chain that decodes one scalar at bytes[k] (k counts from 0).
\* "chr": the scalar and the next index; "panic": an index past the end of
\* the slice; "spin": the final else, loop { }.
decode(bytes, k) ==
    LET n == Len(bytes)
        at(m) == bytes[m + 1]
    IN  IF BitAnd(at(k), 128) = 0
        THEN [kind |-> "chr", chr |-> at(k), next |-> k + 1]
        ELSE IF BitAnd(at(k), 224) = 192
        THEN IF k + 1 >= n THEN [kind |-> "panic", chr |-> 0, next |-> k]
             ELSE [kind |-> "chr",
                   chr |-> BitOr(Shl(BitAnd(at(k), 31), 6), BitAnd(at(k + 1), 63)),
                   next |-> k + 2]
        ELSE IF BitAnd(at(k), 240) = 224
        THEN IF k + 2 >= n THEN [kind |-> "panic", chr |-> 0, next |-> k]
             ELSE [kind |-> "chr",
                   chr |-> BitOr(BitOr(Shl(BitAnd(at(k), 15), 12),
                                       Shl(BitAnd(at(k + 1), 63), 6)),
                                 BitAnd(at(k + 2), 63)),
                   next |-> k + 3]
        ELSE IF BitAnd(at(k), 248) = 240
        THEN IF k + 3 >= n THEN [kind |-> "panic", chr |-> 0, next |-> k]
             ELSE [kind |-> "chr",
                   chr |-> BitOr(BitOr(BitOr(Shl(BitAnd(at(k), 7), 18),
                                             Shl(BitAnd(at(k + 1), 63), 12)),
                                       Shl(BitAnd(at(k + 2), 63), 6)),
                                 BitAnd(at(k + 3), 63)),
                   next |-> k + 4]
        ELSE [kind |-> "spin", chr |-> 0, next |-> k]

\* U+10000 counted as one unit
wide_len_count_gt(chr) == IF chr > 65536 THEN 2 ELSE 1

\* len += if chr >= 0x10000 { 2 } else { 1 }
wide_len_count(chr) == IF chr >= 65536 THEN 2 ELSE 1

\* the low surrogate first
wide_units_swapped(chr) ==
    IF chr >= 65536
    THEN <<(56320 + ((chr - 65536) % 1024)) % 65536, (55296 + (chr - 65536) \div 1024) % 65536>>
    ELSE <<chr % 65536>>

\* the code units written at data[j..]: a surrogate pair from 0x10000 on
wide_units(chr) ==
    IF chr >= 65536
    THEN <<(55296 + (chr - 65536) \div 1024) % 65536, (56320 + ((chr - 65536) % 1024)) % 65536>>
    ELSE <<chr % 65536>>

\* wide_len(s), for an s on which the loop ends (-1: it does not return)
RECURSIVE wide_len_loop(_, _, _)
wide_len_loop(bytes, k, n) ==
    IF k < Len(bytes)
    THEN LET d == decode(bytes, k)
         IN  IF d.kind = "chr" THEN wide_len_loop(bytes, d.next, n + wide_len_count(d.chr))
             ELSE -1
    ELSE n

wide_len(bytes) == wide_len_loop(bytes, 0, 0)

\* wide::<N>(s), for an s on which the loop ends within data
RECURSIVE wide_loop(_, _, _, _)
wide_loop(bytes, k, m, d) ==
    IF k < Len(bytes)
    THEN LET c == decode(bytes, k)
             u == wide_units(c.chr)
         IN  IF c.kind = "chr" /\ m + Len(u) <= Len(d)
             THEN wide_loop(bytes, c.next, m + Len(u),
                            [x \in 1..Len(d) |->
                                IF x > m /\ x <= m + Len(u) THEN u[x - m] ELSE d[x]])
             ELSE d
    ELSE d

wide(N, bytes) == wide_loop(bytes, 0, 0, [x \in 1..N |-> 0])

----------------------------------------------------------------------------
(* SpecCore: one call of hash(s), or one expansion of wide!(s), which      *)
(* calls wide_len(s) and then wide::<LEN>(s), a loop iteration at a time.  *)

MaxChars == 2
MaxRaw == 2
MaxSpin == 3

\* U+0000, 'A', U+007F, U+0080, U+00E9, U+07FF, U+0800, U+FFFF, U+10000,
\* U+1F30D (the globe of the tests) and U+10FFFF
Scalars == {0, 65, 127, 128, 233, 2047, 2048, 65535, 65536, 127757, 1114111}

\* bytes of a str that was not checked: 'A', a continuation byte, a
\* two-byte lead, and a byte that is no lead of any of the four patterns
RawBytes == {65, 128, 195, 248}

RECURSIVE SeqsUpTo(_, _)
SeqsUpTo(S, n) ==
    IF n = 0 THEN {<<>>}
    ELSE LET shorter == SeqsUpTo(S, n - 1)
         IN  shorter \cup {Append(q, x) : q \in {r \in shorter : Len(r) = n - 1}, x \in S}

\* "Hello World"
HelloWorld == <<72, 101, 108, 108, 111, 32, 87, 111, 114, 108, 100>>

CoreInit ==
    /\ \/ /\ chars \in SeqsUpTo(Scalars, MaxChars) \cup {HelloWorld}
          /\ valid = TRUE
          /\ s = as_bytes(chars)
       \/ /\ chars = <<>>
          /\ valid = FALSE
          /\ s \in SeqsUpTo(RawBytes, MaxRaw) \ {<<>>}
    /\ fn \in {"hash", "wide"}
    /\ pc = IF fn = "hash" THEN "hash" ELSE "wide_len"
    /\ i = 0 /\ j = 0 /\ len = 0 /\ iters = 0
    /\ data = <<>>
    /\ result = IF fn = "hash" THEN hash_init ELSE <<>>

\* hash: one iteration of while i < s.len()
hash_iter ==
    /\ pc = "hash" /\ i < Len(s)
    /\ result' = hash_body(result, s[i + 1])
    /\ i' = i + 1
    /\ iters' = iters + 1
    /\ UNCHANGED <<fn, chars, valid, s, j, len, data, pc>>
    /\ UNCHANGED notCore

\* hash: return result
hash_return ==
    /\ pc = "hash" /\ i >= Len(s)
    /\ pc' = "done"
    /\ UNCHANGED <<fn, chars, valid, s, i, j, len, data, result, iters>>
    /\ UNCHANGED notCore

\* wide_len: one iteration of while i < s.len()
wide_len_iter ==
    /\ pc = "wide_len" /\ i < Len(s)
    /\ LET d == decode(s, i)
       IN  /\ pc' = IF d.kind = "chr" THEN "wide_len" ELSE d.kind
           /\ i' = d.next
           /\ len' = IF d.kind = "chr" THEN len + wide_len_count(d.chr) ELSE len
    /\ iters' = iters + 1
    /\ UNCHANGED <<fn, chars, valid, s, j, data, result>>
    /\ UNCHANGED notCore

\* wide!: const LEN = wide_len(STRING); then wide::<LEN>(STRING) starts with
\* data = [0u16; LEN], i = 0, j = 0
wide_len_return ==
    /\ pc = "wide_len" /\ i >= Len(s)
    /\ pc' = "wide"
    /\ data' = [x \in 1..len |-> 0]
    /\ i' = 0 /\ j' = 0 /\ iters' = 0
    /\ UNCHANGED <<fn, chars, valid, s, len, result>>
    /\ UNCHANGED notCore

\* wide: one iteration of while i < s.len(); a write past data panics
wide_iter ==
    /\ pc = "wide" /\ i < Len(s)
    /\ LET d == decode(s, i)
           u == wide_units(d.chr)
           fits == j + Len(u) <= Len(data)
       IN  /\ pc' = IF d.kind # "chr" THEN d.kind ELSE IF fits THEN "wide" ELSE "panic"
           /\ i' = d.next
           /\ data' = IF d.kind = "chr" /\ fits
                      THEN [x \in 1..Len(data) |->
                               IF x > j /\ x <= j + Len(u) THEN u[x - j] ELSE data[x]]
                      ELSE IF d.kind = "chr" /\ j < Len(data)
                      THEN [data EXCEPT ![j + 1] = u[1]]
                      ELSE data
           /\ j' = IF d.kind = "chr" /\ fits THEN j + Len(u) ELSE j
    /\ iters' = iters + 1
    /\ UNCHANGED <<fn, chars, valid, s, len, result>>
    /\ UNCHANGED notCore

\* wide: return data
wide_return ==
    /\ pc = "wide" /\ i >= Len(s)
    /\ pc' = "done"
    /\ result' = data
    /\ UNCHANGED <<fn, chars, valid, s, i, j, len, data, iters>>
    /\ UNCHANGED notCore

\* loop { }: one more turn of the loop that has no exit
spin ==
    /\ pc = "spin" /\ iters < Len(s) + MaxSpin
    /\ iters' = iters + 1
    /\ UNCHANGED <<fn, chars, valid, s, i, j, len, data, result, pc>>
    /\ UNCHANGED notCore

CoreIdle ==
    /\ fn = "" /\ chars = Unset /\ valid = FALSE /\ s = Unset /\ i = 0 /\ j = 0 /\ len = 0
    /\ data = Unset /\ result = Unset /\ iters = 0 /\ pc = ""

CoreNext ==
    \/ hash_iter \/ hash_return
    \/ wide_len_iter \/ wide_len_return
    \/ wide_iter \/ wide_return
    \/ spin

\* the loop ended and the function returned
Returned(f) == fn = f /\ pc = "done"

\* acc * 33 + b modulo 2^32, on a pair <<low 16 bits, high 16 bits>>
Djb2Step(acc, b) ==
    LET t == acc[1] * 33 + b
    IN  <<t % 65536, (acc[2] * 33 + t \div 65536) % 65536>>

RECURSIVE Djb2Fold(_, _)
Djb2Fold(bytes, n) ==
    IF n = 0 THEN <<3581, 0>> ELSE Djb2Step(Djb2Fold(bytes, n - 1), bytes[n])

Halves(x) == <<x[1] + 256 * x[2], x[3] + 256 * x[4]>>

\* C5: hash(s) is the left fold of acc := (acc * 33 + byte) mod 2^32 over the
\* bytes of s from acc = 3581 (after i iterations, the fold of the first i
\* bytes); hash("") = 3581 and hash("Hello World") = 1481604729.
C5_HashIsDjb2Fold ==
    fn = "hash" =>
        /\ Halves(result) = Djb2Fold(s, i)
        /\ pc = "done" => i = Len(s)
        /\ (pc = "done" /\ s = <<>>) => result = <<253, 13, 0, 0>>
        /\ (pc = "done" /\ s = HelloWorld) => result = ToBytes(1481604729, 4)

C5_Witness == Returned("hash") /\ s = HelloWorld

\* the code units of one scalar, as the claim states them
Utf16Units(c) ==
    IF c < 65536 THEN <<c>>
    ELSE <<55296 + (c - 65536) \div 1024, 56320 + ((c - 65536) % 1024)>>

RECURSIVE Utf16(_)
Utf16(cs) == IF cs = <<>> THEN <<>> ELSE Utf16Units(Head(cs)) \o Utf16(Tail(cs))

ValidPair(c, u) ==
    /\ Len(u) = 2
    /\ u[1] >= 55296 /\ u[1] <= 56319
    /\ u[2] >= 56320 /\ u[2] <= 57343
    /\ 65536 + (u[1] - 55296) * 1024 + (u[2] - 56320) = c

\* C3: wide(s) is, in input order, one code unit equal to the scalar for each
\* scalar below 0x10000 and for each scalar c from 0x10000 on the two units
\* 0xD800 + (c - 0x10000) / 0x400 and 0xDC00 + (c - 0x10000) % 0x400, a high
\* and a low surrogate from which c is reconstructed (U+1F30D: 0xd83c, 0xdf0d).
C3_WideEmitsUtf16 ==
    (Returned("wide") /\ valid) =>
        /\ result = Utf16(chars)
        /\ chars = <<127757>> => result = <<55356, 57101>>
        /\ \A n \in 1..Len(chars) :
              chars[n] >= 65536 => ValidPair(chars[n], Utf16Units(chars[n]))

C3_Witness ==
    /\ Returned("wide") /\ valid
    /\ \E n \in 1..Len(chars) : chars[n] >= 65536
    /\ \E n \in 1..Len(chars) : chars[n] < 65536

\* C4: for valid UTF-8 s and LEN = wide_len(s), wide::<LEN>(s) never writes
\* at or past LEN (while input remains, j is below LEN and no write panics)
\* and ends with j = LEN: wide_len(s) is the number of units wide writes.
C4_WideLenIsUnitsWritten ==
    (fn = "wide" /\ valid) =>
        /\ pc # "panic"
        /\ (pc = "wide" /\ i < Len(s)) => j < len
        /\ pc = "done" => (j = len /\ Len(result) = len /\ len = Len(Utf16(chars)))

C4_Witness ==
    /\ Returned("wide") /\ valid
    /\ j = len /\ len >= 3
    /\ \E n \in 1..Len(chars) : chars[n] = 65536

\* C8: hash, wide_len and wide end after a number of loop iterations bounded
\* by the length of the input, whatever its bytes are.
C8_LoopsBoundedByInput == iters <= Len(s)

----------------------------------------------------------------------------
(* mod bytes and mod words: keystream, obfuscate, deobfuscate, equals.     *)
(* A byte is a number below 2^8 and a word a number below 2^16.            *)

XorUnit(a, b) == XorByte(a % 256, b % 256) + 256 * XorByte(a \div 256, b \div 256)

\* position n's sub-key: the bit mixer applied to a running 64-bit state
\* seeded from the key, advanced once per position
RECURSIVE keystream_loop(_, _, _, _)
keystream_loop(state, n, N, width) ==
    IF n >= N THEN <<>>
    ELSE LET next == splitmix(state)
             unit == IF width = 1 THEN next[1] ELSE next[1] + 256 * next[2]
         IN  <<unit>> \o keystream_loop(next, n + 1, N, width)

bytes_keystream(N, k) == keystream_loop(as_u64(k), 0, N, 1)
words_keystream(N, k) == keystream_loop(as_u64(k), 0, N, 2)

\* element-wise XOR, in both directions and both widths
bytes_obfuscate(plain, keys) == [n \in 1..Len(keys) |-> XorUnit(plain[n], keys[n])]
bytes_deobfuscate(cipher, keys) == [n \in 1..Len(keys) |-> XorUnit(cipher[n], keys[n])]
words_obfuscate(plain, keys) == [n \in 1..Len(keys) |-> XorUnit(plain[n], keys[n])]
words_deobfuscate(cipher, keys) == [n \in 1..Len(keys) |-> XorUnit(cipher[n], keys[n])]

\* false if the candidate's length is not N, else candidate[n] ^ keys[n]
\* against cipher[n] for every n
bytes_equals(cipher, keys, candidate) ==
    /\ Len(candidate) = Len(cipher)
    /\ \A n \in 1..Len(cipher) : XorUnit(candidate[n], keys[n]) = cipher[n]

----------------------------------------------------------------------------
(* ObfString, ObfBuffer, unsafe_as_str and the macros.                     *)

\* ObfString::<[u8; LEN]>::obfuscate(key, s)
ObfString_u8_obfuscate(N, k, sbytes) ==
    LET keys == bytes_keystream(N, k)
    IN  [key |-> k, data |-> bytes_obfuscate(sbytes, keys)]

\* ObfString::<[u8; LEN]>::deobfuscate(&self, _x), the buffer's array
ObfString_u8_deobfuscate(self) ==
    LET keys == bytes_keystream(Len(self.data), self.key)
    IN  bytes_deobfuscate(self.data, keys)

\* the keystream regenerated from key 0, not self.key
ObfString_eq_stale_key(self, other) ==
    LET keys == bytes_keystream(Len(self.data), ToBytes(0, 4))
    IN  bytes_equals(self.data, keys, other)

\* impl PartialEq<&str> for ObfString<[u8; LEN]>: obf == other
ObfString_eq(self, other) ==
    LET keys == bytes_keystream(Len(self.data), self.key)
    IN  bytes_equals(self.data, keys, other)

\* impl PartialEq<ObfString<[u8; LEN]>> for &str: self == other
str_eq_ObfString(self, other) ==
    LET keys == bytes_keystream(Len(other.data), other.key)
    IN  bytes_equals(other.data, keys, self)

\* ObfString::<[u16; LEN]>::obfuscate(key, string)
ObfString_u16_obfuscate(N, k, sbytes) ==
    LET keys == words_keystream(N, k)
        string == wide(N, sbytes)
    IN  [key |-> k, data |-> words_obfuscate(string, keys)]

\* ObfString::<[u16; LEN]>::deobfuscate(&self, _x), the buffer's array
ObfString_u16_deobfuscate(self) ==
    LET keys == words_keystream(Len(self.data), self.key)
    IN  words_deobfuscate(self.data, keys)

\* wide!(s): LEN = wide_len(STRING), WIDE = wide::<LEN>(STRING)
wide_macro(sbytes) == wide(wide_len(sbytes), sbytes)

Cont(b) == b >= 128 /\ b <= 191

\* core::str::from_utf8(bytes).is_ok()
RECURSIVE from_utf8_is_ok(_, _)
from_utf8_is_ok(b, k) ==
    IF k > Len(b) THEN TRUE
    ELSE LET at(m) == IF m <= Len(b) THEN b[m] ELSE 0
             c == b[k]
         IN  IF c < 128 THEN from_utf8_is_ok(b, k + 1)
             ELSE IF c >= 194 /\ c <= 223
             THEN Cont(at(k + 1)) /\ from_utf8_is_ok(b, k + 2)
             ELSE IF c >= 224 /\ c <= 239
             THEN /\ Cont(at(k + 1)) /\ Cont(at(k + 2))
                  /\ (c = 224 => at(k + 1) >= 160)
                  /\ (c = 237 => at(k + 1) <= 159)
                  /\ from_utf8_is_ok(b, k + 3)
             ELSE IF c >= 240 /\ c <= 244
             THEN /\ Cont(at(k + 1)) /\ Cont(at(k + 2)) /\ Cont(at(k + 3))
                  /\ (c = 240 => at(k + 1) >= 144)
                  /\ (c = 244 => at(k + 1) <= 143)
                  /\ from_utf8_is_ok(b, k + 4)
             ELSE FALSE

\* unsafe_as_str(bytes): the same bytes as a str. With debug_assertions
\* from_utf8(bytes).unwrap() panics on bytes that are not UTF-8; without,
\* from_utf8_unchecked yields a str over them whatever they are.
unsafe_as_str(bytes) ==
    IF from_utf8_is_ok(bytes, 1) THEN {"done"} ELSE {"panic", "done"}

----------------------------------------------------------------------------
(* SpecObf: one call site of obfstr! (six forms) or obfconst! (two), its   *)
(* constants evaluated at compile time, used once at run time.             *)

MaxText == 2
MaxBuf == 4

\* 'A', U+00E9 and U+1F30D
TextScalars == {65, 233, 127757}

Texts == SeqsUpTo(TextScalars, MaxText)

\* random!(u32) at lib.rs:1:1 of a build with OBFSTR_SEED=""
SiteKey == random_u32(entropy(<<>>, <<108, 105, 98, 46, 114, 115>>, 1, 1))

\* 0, 0xffffffff and the key of that call site
Keys == {ToBytes(0, 4), <<255, 255, 255, 255>>, SiteKey}

Forms == {"obfstr", "obfstr_L", "obfstr_let", "obfstr_let_L", "obfstr_buf", "obfstr_buf_L",
          "obfconst", "obfconst_L"}
WideForms == {"obfstr_L", "obfstr_let_L", "obfstr_buf_L", "obfconst_L"}
BufForms == {"obfstr_buf", "obfstr_buf_L"}
ConstForms == {"obfconst", "obfconst_L"}

\* the candidates an ObfString is compared with: the text, the empty text, a
\* longer one, a shorter one, and two of the same length that differ in one bit
Candidates(b) ==
    {b, <<>>, b \o <<65>>}
    \cup (IF b = <<>> THEN {}
          ELSE {SubSeq(b, 1, Len(b) - 1),
                [b EXCEPT ![Len(b)] = XorUnit(@, 1)],
                [b EXCEPT ![1] = XorUnit(@, 32)]})

\* $s.len() in both arms
obfconst_LEN_bytes(f, sbytes) == Len(sbytes)

\* obfconst!: [u8; {$s.len()}] and [u16; {wide_len($s)}]
obfconst_LEN(f, sbytes) == IF f = "obfconst_L" THEN wide_len(sbytes) ELSE Len(sbytes)

ObfInit ==
    /\ form \in Forms
    /\ text \in Texts
    /\ key \in Keys
    /\ STRING_ = IF form \in WideForms \ ConstForms
                 THEN wide_macro(as_bytes(text))
                 ELSE as_bytes(text)
    /\ LEN = IF form \in ConstForms THEN obfconst_LEN(form, STRING_) ELSE Len(STRING_)
    /\ KEYSTREAM = IF form \in ConstForms THEN <<>>
                   ELSE IF form \in WideForms THEN words_keystream(LEN, key)
                   ELSE bytes_keystream(LEN, key)
    /\ OBFSTRING = IF form \in ConstForms THEN <<>>
                   ELSE IF form \in WideForms THEN words_obfuscate(STRING_, KEYSTREAM)
                   ELSE bytes_obfuscate(STRING_, KEYSTREAM)
    /\ obfconst = IF form = "obfconst" THEN ObfString_u8_obfuscate(LEN, key, STRING_)
                  ELSE IF form = "obfconst_L" THEN ObfString_u16_obfuscate(LEN, key, STRING_)
                  ELSE [key |-> <<>>, data |-> <<>>]
    /\ \E n \in 0..MaxBuf : buf = IF form \in BufForms THEN [x \in 1..n |-> 170] ELSE <<>>
    /\ cand = <<>> /\ op = "" /\ out = <<>> /\ eqres = FALSE /\ opc = "call"

ObfConsts == <<form, text, key, STRING_, LEN, KEYSTREAM, OBFSTRING, obfconst>>

\* an expression that yields the array d, seen as a str
Yields(name, d) ==
    /\ op' = name
    /\ out' = d
    /\ opc' \in unsafe_as_str(d)
    /\ UNCHANGED <<ObfConsts, buf, cand, eqres>>
    /\ UNCHANGED notObf

\* an expression that yields the array of words d
YieldsWords(name, d) ==
    /\ op' = name
    /\ out' = d
    /\ opc' = "done"
    /\ UNCHANGED <<ObfConsts, buf, cand, eqres>>
    /\ UNCHANGED notObf

\* obfstr!($s)
obfstr_expr ==
    /\ opc = "call" /\ form = "obfstr"
    /\ Yields("obfstr", bytes_deobfuscate(OBFSTRING, KEYSTREAM))

\* obfstr!(L$s)
obfstr_expr_L ==
    /\ opc = "call" /\ form = "obfstr_L"
    /\ YieldsWords("obfstr", words_deobfuscate(OBFSTRING, KEYSTREAM))

\* obfstr! { let $name = $s; }
obfstr_let ==
    /\ opc = "call" /\ form = "obfstr_let"
    /\ Yields("obfstr", bytes_deobfuscate(OBFSTRING, KEYSTREAM))

\* obfstr! { let $name = L$s; }
obfstr_let_L ==
    /\ opc = "call" /\ form = "obfstr_let_L"
    /\ YieldsWords("obfstr", words_deobfuscate(OBFSTRING, KEYSTREAM))

\* the copy runs element by element and stops at the end of buf
BufCopyThenCheck(d, asStr) ==
    /\ op' = "obfstr"
    /\ buf' = [x \in 1..Len(buf) |-> IF x <= LEN THEN d[x] ELSE buf[x]]
    /\ IF LEN > Len(buf)
       THEN opc' = "panic" /\ out' = out
       ELSE /\ out' = SubSeq(buf', 1, LEN)
            /\ opc' \in IF asStr THEN unsafe_as_str(out') ELSE {"done"}
    /\ UNCHANGED <<ObfConsts, cand, eqres>>
    /\ UNCHANGED notObf

\* let buf = &mut $buf[..LEN]; buf.copy_from_slice(&d); then buf, as a str
\* in the byte form: the slice panics when LEN > $buf.len()
BufSliceThenCopy(d, asStr) ==
    /\ op' = "obfstr"
    /\ IF LEN > Len(buf)
       THEN opc' = "panic" /\ buf' = buf /\ out' = out
       ELSE /\ buf' = [x \in 1..Len(buf) |-> IF x <= LEN THEN d[x] ELSE buf[x]]
            /\ out' = SubSeq(buf', 1, LEN)
            /\ opc' \in IF asStr THEN unsafe_as_str(out') ELSE {"done"}
    /\ UNCHANGED <<ObfConsts, cand, eqres>>
    /\ UNCHANGED notObf

\* obfstr!($buf <- $s)
obfstr_buf ==
    /\ opc = "call" /\ form = "obfstr_buf"
    /\ BufSliceThenCopy(bytes_deobfuscate(OBFSTRING, KEYSTREAM), TRUE)

\* obfstr!($buf <- L$s)
obfstr_buf_L ==
    /\ opc = "call" /\ form = "obfstr_buf_L"
    /\ BufSliceThenCopy(words_deobfuscate(OBFSTRING, KEYSTREAM), FALSE)

\* obflocal!($s): obfconst!($s).deobfuscate(0), read with as_str()
obflocal ==
    /\ opc = "call" /\ form = "obfconst"
    /\ Yields("deobfuscate", ObfString_u8_deobfuscate(obfconst))

\* obflocal!(L$s): obfconst!(L$s).deobfuscate(0)
obflocal_L ==
    /\ opc = "call" /\ form = "obfconst_L"
    /\ YieldsWords("deobfuscate", ObfString_u16_deobfuscate(obfconst))

Compared(name, c, r) ==
    /\ op' = name
    /\ cand' = c
    /\ eqres' = r
    /\ opc' = "done"
    /\ UNCHANGED <<ObfConsts, buf, out>>
    /\ UNCHANGED notObf

\* obfconst!($s) == $e
obf_eq_str ==
    /\ opc = "call" /\ form = "obfconst"
    /\ \E c \in Candidates(STRING_) : Compared("obf == cand", c, ObfString_eq(obfconst, c))

\* obfeq!($e, $s): $e == obfconst!($s)
str_eq_obf ==
    /\ opc = "call" /\ form = "obfconst"
    /\ \E c \in Candidates(STRING_) : Compared("cand == obf", c, str_eq_ObfString(c, obfconst))

ObfNext ==
    \/ obfstr_expr \/ obfstr_expr_L
    \/ obfstr_let \/ obfstr_let_L
    \/ obfstr_buf \/ obfstr_buf_L
    \/ obflocal \/ obflocal_L
    \/ obf_eq_str \/ str_eq_obf

ObfIdle ==
    /\ form = "" /\ text = Unset /\ key = Unset /\ STRING_ = Unset /\ LEN = 0
    /\ KEYSTREAM = Unset /\ OBFSTRING = Unset /\ obfconst = Unset /\ buf = Unset
    /\ cand = Unset /\ op = "" /\ out = Unset /\ eqres = FALSE /\ opc = ""

\* the units of the text: its UTF-8 bytes, or its UTF-16 code units
Units(f, t) == IF f \in WideForms THEN Utf16(t) ELSE as_bytes(t)

\* C1: every way of obfuscating a text with a key and deobfuscating it again
\* (ObfString::obfuscate then deobfuscate, and every obfstr! form, bytes and
\* words) returns exactly the units of the text, the empty text included.
C1_RoundTrip ==
    (op \in {"obfstr", "deobfuscate"} /\ opc # "call")
        => (opc = "done" /\ out = Units(form, text)) \/ (opc = "panic" /\ form \in BufForms)

C1_Witness ==
    /\ op = "deobfuscate" /\ opc = "done" /\ form = "obfconst_L"
    /\ Len(out) = 3 /\ out = Utf16(text)
    /\ key # ToBytes(0, 4)

\* C2: an ObfString built from text s compares equal to a candidate, in either
\* operand order, exactly when the candidate's bytes are the bytes of s; a
\* candidate of another length than LEN yields false; the result is that of
\* comparing the candidate with the deobfuscated plaintext.
C2_EqualityAgreement ==
    (op \in {"obf == cand", "cand == obf"} /\ opc = "done") =>
        /\ eqres = (cand = as_bytes(text))
        /\ Len(cand) # LEN => eqres = FALSE
        /\ eqres = (cand = ObfString_u8_deobfuscate(obfconst))

C2_Witness ==
    /\ op = "cand == obf" /\ opc = "done"
    /\ eqres = FALSE /\ Len(cand) = LEN /\ LEN = 2
    /\ key # ToBytes(0, 4)

\* C6: obfstr!(buf <- s) panics whenever buf is shorter than LEN, before any
\* element of buf is written (buf is as the caller left it), and never panics
\* for that reason when buf.len() >= LEN.
C6_BufferTooSmall ==
    (form \in BufForms /\ opc # "call") =>
        /\ opc = "panic" <=> Len(buf) < LEN
        /\ opc = "panic" => buf = [x \in 1..Len(buf) |-> 170]

C6_Witness ==
    /\ form = "obfstr_buf" /\ opc = "panic"
    /\ Len(buf) >= 1 /\ LEN > Len(buf)

----------------------------------------------------------------------------
(* SpecThreads: threads that run one obfstr!($s) or obfstr!(L$s) call site *)
(* again and again. OBFSTRING is the call site's static mut; deobfuscate   *)
(* works an element at a time, and the threads interleave between elements.*)

NThreads == 2
MaxThreadText == 2

Threads == 1..NThreads

ThrInit ==
    /\ form \in {"obfstr", "obfstr_L"}
    /\ text \in SeqsUpTo(TextScalars, MaxThreadText)
    /\ key = SiteKey
    /\ STRING_ = IF form \in WideForms THEN wide_macro(as_bytes(text)) ELSE as_bytes(text)
    /\ LEN = Len(STRING_)
    /\ KEYSTREAM = IF form \in WideForms THEN words_keystream(LEN, key)
                   ELSE bytes_keystream(LEN, key)
    /\ OBFSTRING = IF form \in WideForms THEN words_obfuscate(STRING_, KEYSTREAM)
                   ELSE bytes_obfuscate(STRING_, KEYSTREAM)
    /\ obfconst = Unset /\ buf = Unset /\ cand = Unset /\ op = "" /\ out = Unset
    /\ eqres = FALSE /\ opc = ""
    /\ tpc = [t \in Threads |-> "idle"]
    /\ tdst = [t \in Threads |-> "local"]
    /\ ti = [t \in Threads |-> 0]
    /\ tdata = [t \in Threads |-> <<>>]
    /\ tout = [t \in Threads |-> <<>>]

ThrFrame == <<form, text, key, STRING_, LEN, KEYSTREAM, obfconst, buf, cand, op, out, eqres, opc>>

\* the array is decoded where it lies, in the static
obfstr_call_in_place(t) ==
    /\ tpc[t] \in {"idle", "done"}
    /\ tpc' = [tpc EXCEPT ![t] = "decode"]
    /\ tdst' = [tdst EXCEPT ![t] = "static"]
    /\ ti' = [ti EXCEPT ![t] = 0]
    /\ tdata' = [tdata EXCEPT ![t] = [x \in 1..LEN |-> 0]]
    /\ tout' = [tout EXCEPT ![t] = <<>>]
    /\ UNCHANGED <<ThrFrame, OBFSTRING>>
    /\ UNCHANGED notThreads

\* thread t reaches the call site: deobfuscate::<LEN>(unsafe { &OBFSTRING },
\* &KEYSTREAM) reads the static through a shared reference and builds its
\* result in an array of its own
obfstr_call(t) ==
    /\ tpc[t] \in {"idle", "done"}
    /\ tpc' = [tpc EXCEPT ![t] = "decode"]
    /\ tdst' = [tdst EXCEPT ![t] = "local"]
    /\ ti' = [ti EXCEPT ![t] = 0]
    /\ tdata' = [tdata EXCEPT ![t] = [x \in 1..LEN |-> 0]]
    /\ tout' = [tout EXCEPT ![t] = <<>>]
    /\ UNCHANGED <<ThrFrame, OBFSTRING>>
    /\ UNCHANGED notThreads

\* one element of deobfuscate: destination[i] = cipher[i] ^ keys[i]
deobfuscate_step(t) ==
    /\ tpc[t] = "decode" /\ ti[t] < LEN
    /\ LET unit == XorUnit(OBFSTRING[ti[t] + 1], KEYSTREAM[ti[t] + 1])
       IN  IF tdst[t] = "local"
           THEN /\ tdata' = [tdata EXCEPT ![t][ti[t] + 1] = unit]
                /\ UNCHANGED OBFSTRING
           ELSE /\ OBFSTRING' = [OBFSTRING EXCEPT ![ti[t] + 1] = unit]
                /\ UNCHANGED tdata
    /\ ti' = [ti EXCEPT ![t] = ti[t] + 1]
    /\ UNCHANGED <<ThrFrame, tpc, tdst, tout>>
    /\ UNCHANGED notThreads

\* deobfuscate returns; the expression's value is the array it built
obfstr_value(t) ==
    /\ tpc[t] = "decode" /\ ti[t] >= LEN
    /\ tout' = [tout EXCEPT ![t] = IF tdst[t] = "local" THEN tdata[t] ELSE OBFSTRING]
    /\ tpc' = [tpc EXCEPT ![t] = "done"]
    /\ UNCHANGED <<ThrFrame, OBFSTRING, tdst, ti, tdata>>
    /\ UNCHANGED notThreads

ThrNext ==
    \E t \in Threads : obfstr_call(t) \/ deobfuscate_step(t) \/ obfstr_value(t)

ThrIdle == tpc = Unset /\ tdst = Unset /\ ti = Unset /\ tdata = Unset /\ tout = Unset

\* C9: threads may run one obfstr! call site concurrently in any interleaving
\* and each obtains the whole plaintext: the static OBFSTRING is never written
\* after its initialisation, and each invocation decodes into an array of its
\* own, which holds the decoded prefix and nothing of another invocation.
C9_ConcurrentCallsDecode ==
    /\ OBFSTRING = (IF form \in WideForms THEN words_obfuscate(STRING_, KEYSTREAM)
                    ELSE bytes_obfuscate(STRING_, KEYSTREAM))
    /\ \A t \in Threads :
          /\ tpc[t] = "done" => tout[t] = Units(form, text)
          /\ tpc[t] = "decode" =>
                tdata[t] = [x \in 1..LEN |-> IF x <= ti[t] THEN Units(form, text)[x] ELSE 0]

C9_Witness ==
    /\ LEN >= 2
    /\ tpc[1] = "done" /\ tout[1] = Units(form, text)
    /\ tpc[2] = "decode" /\ ti[2] = 1

----------------------------------------------------------------------------
(* SpecEntropy: random! expanded at two call sites of one build.           *)

MaxLine == 1
MaxColumn == 2

\* values of OBFSTR_SEED: "" and "42"
Envs == {<<>>, <<52, 50>>}

\* file!(): "az.rs", "bY.rs", "lib.rs"
Files == {<<97, 122, 46, 114, 115>>, <<98, 89, 46, 114, 115>>, <<108, 105, 98, 46, 114, 115>>}

\* line!() and column!(); the two far lines are a pair whose keys coincide
\* in az.rs at column 2 when OBFSTR_SEED is empty
Lines == (1..MaxLine) \cup {6489, 35919}
Columns == 1..MaxColumn

CallSites == [file : Files, line : Lines, column : Columns]

EntIdle == env = Unset /\ sites = Unset /\ rnd = Unset /\ mixed = Unset

EntInit ==
    /\ env \in Envs
    /\ sites \in [1..2 -> CallSites]
    /\ rnd = [n \in 1..2 |-> Unset]
    /\ mixed = [n \in 1..2 |-> Unset]

\* const ENTROPY: u64 = entropy(file!(), line!(), column!()), at call site n
random_expand(n) ==
    /\ rnd[n] = Unset
    /\ rnd' = [rnd EXCEPT ![n] = entropy(env, sites[n].file, sites[n].line, sites[n].column)]
    /\ UNCHANGED <<env, sites, mixed>>
    /\ UNCHANGED notEnt

\* splitmix(random!(u64)): the value of call site n mixed once more
splitmix_call(n) ==
    /\ rnd[n] # Unset /\ mixed[n] = Unset
    /\ mixed' = [mixed EXCEPT ![n] = splitmix(random_u64(rnd[n]))]
    /\ UNCHANGED <<env, sites, rnd>>
    /\ UNCHANGED notEnt

EntNext == \E n \in 1..2 : random_expand(n) \/ splitmix_call(n)

BothExpanded == rnd[1] # Unset /\ rnd[2] # Unset

DiffCount ==
    (IF hash(sites[1].file) # hash(sites[2].file) THEN 1 ELSE 0)
    + (IF sites[1].line # sites[2].line THEN 1 ELSE 0)
    + (IF sites[1].column # sites[2].column THEN 1 ELSE 0)

\* C7 as stated: two call sites that differ in at least one of file, line and
\* column get different 32-bit keys random!(u32) and different random!(u64).
C7_DistinctSitesDistinctKeys ==
    (BothExpanded /\ sites[1] # sites[2]) =>
        /\ random_u32(rnd[1]) # random_u32(rnd[2])
        /\ random_u64(rnd[1]) # random_u64(rnd[2])

\* C7 amended: two call sites that differ in exactly one of hash(file), line
\* and column get different 64-bit entropy, hence different random!(u64);
\* call sites equal in all three (two files whose paths hash alike) get the
\* same entropy and the same key.
C7_OneComponentDistinctEntropy ==
    BothExpanded =>
        /\ DiffCount = 1 => random_u64(rnd[1]) # random_u64(rnd[2])
        /\ DiffCount = 0 =>
              /\ random_u64(rnd[1]) = random_u64(rnd[2])
              /\ random_u32(rnd[1]) = random_u32(rnd[2])

\* two lines of one file, same column: the entropy differs, its low half,
\* the key, does not
C7_Witness ==
    /\ BothExpanded
    /\ sites[1].file = sites[2].file
    /\ sites[1].column = sites[2].column
    /\ sites[1].line # sites[2].line
    /\ random_u64(rnd[1]) # random_u64(rnd[2])
    /\ random_u32(rnd[1]) = random_u32(rnd[2])

\* C10: splitmix is injective, so with file and line fixed entropy differs
\* whenever the columns differ: two random!(u64) on one source line never
\* return the same value.
C10_SameLineDistinctColumns ==
    BothExpanded =>
        /\ (sites[1].file = sites[2].file /\ sites[1].line = sites[2].line
            /\ sites[1].column # sites[2].column)
              => random_u64(rnd[1]) # random_u64(rnd[2])
        /\ (mixed[1] # Unset /\ mixed[2] # Unset /\ rnd[1] # rnd[2]) => mixed[1] # mixed[2]

C10_Witness ==
    /\ BothExpanded
    /\ mixed[1] # Unset /\ mixed[2] # Unset
    /\ sites[1].file = sites[2].file
    /\ sites[1].line = sites[2].line
    /\ sites[1].column # sites[2].column

InitEntropy == EntInit /\ CoreIdle /\ ObfIdle /\ ThrIdle
NextEntropy == EntNext
SpecEntropy == InitEntropy /\ [][NextEntropy]_vars

InitCore == CoreInit /\ EntIdle /\ ObfIdle /\ ThrIdle
NextCore == CoreNext
SpecCore == InitCore /\ [][NextCore]_vars

InitObf == ObfInit /\ CoreIdle /\ EntIdle /\ ThrIdle
NextObf == ObfNext
SpecObf == InitObf /\ [][NextObf]_vars

InitThreads == ThrInit /\ CoreIdle /\ EntIdle
NextThreads == ThrNext
SpecThreads == InitThreads /\ [][NextThreads]_vars

====
